---- MODULE Spec2Model ----
(***************************************************************************)
(* Model of the SonicForever auto splitter (src/src/lib.rs): the tick      *)
(* entry point update(), State::init, State::update, the three decisions   *)
(* State::start / State::split / State::reset, and the environment they    *)
(* talk to (the game process, its memory, the host timer).                 *)
(***************************************************************************)
EXTENDS Integers, Sequences, FiniteSets, TLC

VARIABLES
    os,           \* environment: the game process as the operating system sees it
    game,         \* State.game : Option<ProcessInfo>
    watchers,     \* State.watchers : the four Watcher pairs
    settings,     \* State.settings : Option<Settings>
    timer_state,  \* the value timer::state() returned in the tick just taken
    evals,        \* the decisions the tick just taken evaluated, in order
    cmds,         \* the timer commands the tick just taken issued, in order
    reads,        \* the memory reads State::update performed in the tick just taken
    ret,          \* the result of the last direct call of a decision function
    calls,        \* the calls State::init made in the tick just taken, in order
    updated       \* the watchers State::update fed a value in the tick just taken

vars == <<os, game, watchers, settings, timer_state, evals, cmds, reads, ret, calls, updated>>

\* Option<T>: None is the empty sequence, Some(x) the one-element sequence.
None == << >>

Some(x) == << x >>

Get(o) == o[1]

\* The value of timer_state in a tick that did not query the timer.
NotQueried == "NotQueried"

-----------------------------------------------------------------------------
(* Enumerations                                                            *)

\* enum ZoneIndicator
ZoneIndicator == {"MainMenu", "Zones", "Ending", "SaveSelect", "Default"}

\* enum Acts, in declaration order; the last one is Acts::Default.
ActOrder ==
    << "GreenHill1", "GreenHill2", "GreenHill3",
       "Marble1", "Marble2", "Marble3",
       "SpringYard1", "SpringYard2", "SpringYard3",
       "Labyrinth1", "Labyrinth2", "Labyrinth3",
       "StarLight1", "StarLight2", "StarLight3",
       "ScrapBrain1", "ScrapBrain2", "ScrapBrain3",
       "FinalZone", "Default" >>

Acts == {ActOrder[i] : i \in 1..Len(ActOrder)}

\* enum GameVersion
Below1_5_0 == "Below1_5_0"
V1_5_0OrHigher == "V1_5_0OrHigher"
GameVersion == {Below1_5_0, V1_5_0OrHigher}

\* asr::timer::TimerState
TimerState == {"NotRunning", "Running", "Paused", "Ended"}

\* The fields of struct Settings, in declaration order.
SettingNames ==
    << "start_clean_save", "start_new_game_plus", "reset",
       "green_hill_1", "green_hill_2", "green_hill_3",
       "marble_1", "marble_2", "marble_3",
       "spring_yard_1", "spring_yard_2", "spring_yard_3",
       "labyrinth_1", "labyrinth_2", "labyrinth_3",
       "star_light_1", "star_light_2", "star_light_3",
       "scrap_brain_1", "scrap_brain_2", "scrap_brain_3",
       "final_zone" >>

SettingFields == {SettingNames[i] : i \in 1..Len(SettingNames)}

\* Every toggle at its #[default = true].
DefaultSettings == [n \in SettingFields |-> TRUE]

AllOff == [n \in SettingFields |-> FALSE]

-----------------------------------------------------------------------------
(* Watcher<T> (asr::watcher)                                               *)

\* Watcher::new(): no pair yet.
Watcher_new == None

Pair(old, current) == [old |-> old, current |-> current]

\* Watcher::update(value): an absent value leaves the pair as it is, the first
\* present value fills both fields, a later one shifts current into old.
\* The value returned is the pair held afterwards.
Watcher_update(w, value) ==
    IF value = None THEN w
    ELSE IF w = None THEN Some(Pair(Get(value), Get(value)))
    ELSE Some(Pair(Get(w).current, Get(value)))

\* Pair::changed()
changed(p) == p.old # p.current

\* static AUTOSPLITTER: the watchers after construction.
NewWatchers ==
    [ state |-> Watcher_new,
      levelid |-> Watcher_new,
      zoneselectongamecomplete |-> Watcher_new,
      zoneindicator |-> Watcher_new ]

-----------------------------------------------------------------------------
(* Decisions                                                               *)

\* start() with the save-file condition of the older builds lacking changed().
start_NoChanged(g, w, s) ==
    IF g = None \/ w.state = None \/ w.zoneselectongamecomplete = None
       \/ w.zoneindicator = None \/ s = None
    THEN FALSE
    ELSE LET state == Get(w.state)
             zoneselectongamecomplete == Get(w.zoneselectongamecomplete)
             zoneindicator == Get(w.zoneindicator)
             settings_ == Get(s)
         IN  IF Get(g).game_version = Below1_5_0
             THEN \/ settings_.start_clean_save
                     /\ \/ state.current = 2 /\ zoneindicator.current = "SaveSelect"
                        \/ state.old = 6 /\ state.current = 7
                  \/ settings_.start_new_game_plus /\ state.old = 8 /\ state.current = 9
             ELSE \/ settings_.start_clean_save
                     /\ \/ state.old = 3 /\ state.current = 7
                           /\ zoneindicator.current = "SaveSelect"
                        \/ state.old = 10 /\ state.current = 11
                  \/ settings_.start_new_game_plus /\ state.old = 2 /\ state.current = 6
                     /\ zoneselectongamecomplete.current = 0

\* start() with the 6 -> 7 condition of the older builds asking for the save
\* select screen, as the save-file condition beside it does.
start_NoSaveNeedsScreen(g, w, s) ==
    IF g = None \/ w.state = None \/ w.zoneselectongamecomplete = None
       \/ w.zoneindicator = None \/ s = None
    THEN FALSE
    ELSE LET state == Get(w.state)
             zoneselectongamecomplete == Get(w.zoneselectongamecomplete)
             zoneindicator == Get(w.zoneindicator)
             settings_ == Get(s)
         IN  IF Get(g).game_version = Below1_5_0
             THEN \/ settings_.start_clean_save
                     /\ \/ changed(state) /\ state.current = 2
                           /\ zoneindicator.current = "SaveSelect"
                        \/ state.old = 6 /\ state.current = 7
                           /\ zoneindicator.current = "SaveSelect"
                  \/ settings_.start_new_game_plus /\ state.old = 8 /\ state.current = 9
             ELSE \/ settings_.start_clean_save
                     /\ \/ state.old = 3 /\ state.current = 7
                           /\ zoneindicator.current = "SaveSelect"
                        \/ state.old = 10 /\ state.current = 11
                  \/ settings_.start_new_game_plus /\ state.old = 2 /\ state.current = 6
                     /\ zoneselectongamecomplete.current = 0

\* start() with the new-game-plus condition of 1.5.0 tried on every build.
start_NoTierGate(g, w, s) ==
    IF g = None \/ w.state = None \/ w.zoneselectongamecomplete = None
       \/ w.zoneindicator = None \/ s = None
    THEN FALSE
    ELSE LET state == Get(w.state)
             zoneselectongamecomplete == Get(w.zoneselectongamecomplete)
             zoneindicator == Get(w.zoneindicator)
             settings_ == Get(s)
             ngp_1_5_0 == /\ state.old = 2
                          /\ state.current = 6
                          /\ zoneselectongamecomplete.current = 0
         IN  IF Get(g).game_version = Below1_5_0
             THEN \/ settings_.start_clean_save
                     /\ \/ changed(state) /\ state.current = 2
                           /\ zoneindicator.current = "SaveSelect"
                        \/ state.old = 6 /\ state.current = 7
                  \/ settings_.start_new_game_plus
                     /\ (ngp_1_5_0 \/ (state.old = 8 /\ state.current = 9))
             ELSE \/ settings_.start_clean_save
                     /\ \/ state.old = 3 /\ state.current = 7
                           /\ zoneindicator.current = "SaveSelect"
                        \/ state.old = 10 /\ state.current = 11
                  \/ settings_.start_new_game_plus /\ ngp_1_5_0

\* State::start
start(g, w, s) ==
    IF g = None THEN FALSE
    ELSE IF w.state = None THEN FALSE
    ELSE IF w.zoneselectongamecomplete = None THEN FALSE
    ELSE IF w.zoneindicator = None THEN FALSE
    ELSE IF s = None THEN FALSE
    ELSE LET state == Get(w.state)
             zoneselectongamecomplete == Get(w.zoneselectongamecomplete)
             zoneindicator == Get(w.zoneindicator)
             settings_ == Get(s)
         IN  IF Get(g).game_version = Below1_5_0
             THEN LET run_started_save_file ==
                          /\ changed(state)
                          /\ state.current = 2
                          /\ zoneindicator.current = "SaveSelect"
                      run_started_no_save_file == state.old = 6 /\ state.current = 7
                      run_started_ngp == state.old = 8 /\ state.current = 9
                  IN  \/ settings_.start_clean_save
                         /\ (run_started_save_file \/ run_started_no_save_file)
                      \/ settings_.start_new_game_plus /\ run_started_ngp
             ELSE LET run_started_save_file ==
                          /\ state.old = 3
                          /\ state.current = 7
                          /\ zoneindicator.current = "SaveSelect"
                      run_started_no_save_file == state.old = 10 /\ state.current = 11
                      run_started_ngp ==
                          /\ state.old = 2
                          /\ state.current = 6
                          /\ zoneselectongamecomplete.current = 0
                  IN  \/ settings_.start_clean_save
                         /\ (run_started_save_file \/ run_started_no_save_file)
                      \/ settings_.start_new_game_plus /\ run_started_ngp

\* split() with the final split not asking for a change of act.
split_FinalWithoutChange(w, s) ==
    IF w.levelid = None \/ s = None THEN FALSE
    ELSE LET levelid == Get(w.levelid)
             settings_ == Get(s)
             i == CHOOSE k \in 1..Len(ActOrder) : ActOrder[k] = levelid.current
         IN  IF levelid.current = "Default" THEN settings_.final_zone
             ELSE /\ i > 1
                  /\ levelid.old = ActOrder[i - 1]
                  /\ settings_[SettingNames[i + 2]]

\* State::split
split(w, s) ==
    IF w.levelid = None THEN FALSE
    ELSE IF s = None THEN FALSE
    ELSE LET levelid == Get(w.levelid)
             settings_ == Get(s)
         IN
         CASE levelid.current = "GreenHill2" -> settings_.green_hill_1 /\ levelid.old = "GreenHill1"
           [] levelid.current = "GreenHill3" -> settings_.green_hill_2 /\ levelid.old = "GreenHill2"
           [] levelid.current = "Marble1" -> settings_.green_hill_3 /\ levelid.old = "GreenHill3"
           [] levelid.current = "Marble2" -> settings_.marble_1 /\ levelid.old = "Marble1"
           [] levelid.current = "Marble3" -> settings_.marble_2 /\ levelid.old = "Marble2"
           [] levelid.current = "SpringYard1" -> settings_.marble_3 /\ levelid.old = "Marble3"
           [] levelid.current = "SpringYard2" -> settings_.spring_yard_1 /\ levelid.old = "SpringYard1"
           [] levelid.current = "SpringYard3" -> settings_.spring_yard_2 /\ levelid.old = "SpringYard2"
           [] levelid.current = "Labyrinth1" -> settings_.spring_yard_3 /\ levelid.old = "SpringYard3"
           [] levelid.current = "Labyrinth2" -> settings_.labyrinth_1 /\ levelid.old = "Labyrinth1"
           [] levelid.current = "Labyrinth3" -> settings_.labyrinth_2 /\ levelid.old = "Labyrinth2"
           [] levelid.current = "StarLight1" -> settings_.labyrinth_3 /\ levelid.old = "Labyrinth3"
           [] levelid.current = "StarLight2" -> settings_.star_light_1 /\ levelid.old = "StarLight1"
           [] levelid.current = "StarLight3" -> settings_.star_light_2 /\ levelid.old = "StarLight2"
           [] levelid.current = "ScrapBrain1" -> settings_.star_light_3 /\ levelid.old = "StarLight3"
           [] levelid.current = "ScrapBrain2" -> settings_.scrap_brain_1 /\ levelid.old = "ScrapBrain1"
           [] levelid.current = "ScrapBrain3" -> settings_.scrap_brain_2 /\ levelid.old = "ScrapBrain2"
           [] levelid.current = "FinalZone" -> settings_.scrap_brain_3 /\ levelid.old = "ScrapBrain3"
           [] levelid.current = "Default" -> settings_.final_zone /\ levelid.old # levelid.current
           [] OTHER -> FALSE

\* reset() without the test of the zone indicator.
reset_AnyScreen(g, w, s) ==
    IF s = None THEN FALSE
    ELSE IF ~Get(s).reset \/ w.state = None \/ w.zoneindicator = None \/ g = None THEN FALSE
    ELSE LET state == Get(w.state) IN
         IF Get(g).game_version = Below1_5_0
         THEN state.current = 201 /\ state.old = 200
         ELSE state.current = 14 /\ state.old = 13

\* reset() taking a zone indicator never sampled for the save select screen.
reset_EmptyIsSaveSelect(g, w, s) ==
    IF s = None THEN FALSE
    ELSE IF ~Get(s).reset \/ w.state = None \/ g = None THEN FALSE
    ELSE LET state == Get(w.state)
             screen == IF w.zoneindicator = None THEN "SaveSelect"
                       ELSE Get(w.zoneindicator).current
         IN  IF Get(g).game_version = Below1_5_0
             THEN state.current = 201 /\ state.old = 200 /\ screen = "SaveSelect"
             ELSE state.current = 14 /\ state.old = 13 /\ screen = "SaveSelect"

\* State::reset
reset(g, w, s) ==
    IF s = None THEN FALSE
    ELSE IF ~Get(s).reset THEN FALSE
    ELSE IF w.state = None THEN FALSE
    ELSE IF w.zoneindicator = None THEN FALSE
    ELSE IF g = None THEN FALSE
    ELSE LET state == Get(w.state)
             zoneindicator == Get(w.zoneindicator)
         IN  IF Get(g).game_version = Below1_5_0
             THEN /\ state.current = 201
                  /\ state.old = 200
                  /\ zoneindicator.current = "SaveSelect"
             ELSE /\ state.current = 14
                  /\ state.old = 13
                  /\ zoneindicator.current = "SaveSelect"

-----------------------------------------------------------------------------
(* The game process and ProcessInfo::attach_process                        *)

\* The image size from which a 32-bit build is version 1.5.0 or higher.
SizeThreshold == 92225536

\* A module image: the signatures a scan finds in it, and its size.
Image(sigs, size) == [sigs |-> sigs, size |-> size]

\* Address(0), and the address the resolver computes for a field of the
\* process `pid` under the layout of (is_64_bit, version).
NullAddress == << 0, "null", "null" >>

Address(pid, layout, field) == << pid, layout, field >>

Layout(is_64_bit, version) == IF is_64_bit THEN "x64" ELSE IF version = Below1_5_0 THEN "x86" ELSE "x86_1_5_0"

\* Process::is_open of the handle of process `pid`.
is_open(o, pid) == o.alive /\ o.pid = pid

\* attach_process taking the version from the image size whatever the bitness.
attach_process_VersionFromSize(o, found) ==
    IF ~(o.alive /\ found) THEN None
    ELSE LET img == Get(o.image) IN
         IF ~("SIG64" \in img.sigs \/ "SIG32" \in img.sigs) THEN None
         ELSE Some([ game |-> o.pid,
                     is_64_bit |-> "SIG64" \in img.sigs,
                     game_version |-> IF img.size < SizeThreshold THEN Below1_5_0
                                      ELSE V1_5_0OrHigher,
                     main_module_size |-> img.size,
                     addresses |-> None ])

\* ProcessInfo::attach_process. `found` is whether Process::attach and the
\* module lookups succeed in this call.
attach_process(o, found) ==
    IF ~(o.alive /\ found) THEN None
    ELSE LET img == Get(o.image) IN
         IF ~("SIG64" \in img.sigs \/ "SIG32" \in img.sigs) THEN None
         ELSE LET is_64_bit == "SIG64" \in img.sigs
                  game_version ==
                      IF is_64_bit THEN Below1_5_0
                      ELSE IF img.size < SizeThreshold THEN Below1_5_0
                      ELSE V1_5_0OrHigher
              IN  Some([ game |-> o.pid,
                         is_64_bit |-> is_64_bit,
                         game_version |-> game_version,
                         main_module_size |-> img.size,
                         addresses |-> None ])

-----------------------------------------------------------------------------
(* MemoryPtr::new                                                          *)

\* The signatures each layout's procedure scans for.
RequiredSigs(is_64_bit, version) ==
    IF version = Below1_5_0
    THEN IF is_64_bit THEN {"SIG64", "SIG_64_2", "SIG_64_3"} ELSE {"SIG32", "SIG32_2"}
    ELSE IF is_64_bit THEN {} ELSE {"SIG32", "SIG32_2"}

\* MemoryPtr::new on the image of process `pid`. `reads_ok` is whether every
\* memory read of the procedure succeeds in this call.
MemoryPtr_new(img, pid, is_64_bit, version, reads_ok) ==
    LET a(field) == Address(pid, Layout(is_64_bit, version), field) IN
    IF version = Below1_5_0
    THEN IF ~(RequiredSigs(is_64_bit, version) \subseteq img.sigs /\ reads_ok) THEN None
         ELSE Some([ state |-> a("state"),
                     levelid |-> a("levelid"),
                     zoneselectongamecomplete |-> NullAddress,
                     zoneindicator |-> a("zoneindicator") ])
    ELSE IF is_64_bit THEN None
         ELSE IF ~(RequiredSigs(is_64_bit, version) \subseteq img.sigs /\ reads_ok) THEN None
         ELSE Some([ state |-> a("state"),
                     levelid |-> a("levelid"),
                     zoneselectongamecomplete |-> a("zoneselectongamecomplete"),
                     zoneindicator |-> a("zoneindicator") ])

-----------------------------------------------------------------------------
(* State::init                                                             *)

\* init() attaching again in the call that finds the handle closed, and
\* keeping the addresses it held.
init_ReattachKeepsAddresses(o, g, found, reads_ok) ==
    LET again == attach_process(o, found)
        g1 == IF g = None THEN again
              ELSE IF is_open(o, Get(g).game) \/ again = None THEN g
              ELSE Some([Get(again) EXCEPT !.addresses = Get(g).addresses])
        c1 == IF g = None THEN << "attach_process" >> ELSE << >>
    IN
    IF g1 = None THEN [game |-> g1, ok |-> FALSE, calls |-> c1]
    ELSE IF ~is_open(o, Get(g1).game) THEN [game |-> None, ok |-> FALSE, calls |-> c1]
    ELSE LET p == Get(g1)
             addresses ==
                 IF p.addresses = None
                 THEN MemoryPtr_new(Get(o.image), p.game, p.is_64_bit, p.game_version, reads_ok)
                 ELSE p.addresses
             c2 == IF p.addresses = None THEN << "MemoryPtr::new" >> ELSE << >>
         IN  [ game |-> Some([p EXCEPT !.addresses = addresses]),
               ok |-> addresses # None,
               calls |-> c1 \o c2 ]

\* init() returning true whenever a process is attached, resolved or not.
init_TrueWhenAttached(o, g, found, reads_ok) ==
    LET g1 == IF g = None THEN attach_process(o, found) ELSE g
        c1 == IF g = None THEN << "attach_process" >> ELSE << >>
    IN
    IF g1 = None THEN [game |-> g1, ok |-> FALSE, calls |-> c1]
    ELSE IF ~is_open(o, Get(g1).game) THEN [game |-> None, ok |-> FALSE, calls |-> c1]
    ELSE LET p == Get(g1)
             addresses ==
                 IF p.addresses = None
                 THEN MemoryPtr_new(Get(o.image), p.game, p.is_64_bit, p.game_version, reads_ok)
                 ELSE p.addresses
             c2 == IF p.addresses = None THEN << "MemoryPtr::new" >> ELSE << >>
         IN  [ game |-> Some([p EXCEPT !.addresses = addresses]),
               ok |-> TRUE,
               calls |-> c1 \o c2 ]

\* init() resolving the addresses only in the call that attaches.
init_ResolveOnAttachOnly(o, g, found, reads_ok) ==
    LET g1 == IF g = None THEN attach_process(o, found) ELSE g
        c1 == IF g = None THEN << "attach_process" >> ELSE << >>
    IN
    IF g1 = None THEN [game |-> g1, ok |-> FALSE, calls |-> c1]
    ELSE IF ~is_open(o, Get(g1).game) THEN [game |-> None, ok |-> FALSE, calls |-> c1]
    ELSE LET p == Get(g1)
             addresses ==
                 IF g = None
                 THEN MemoryPtr_new(Get(o.image), p.game, p.is_64_bit, p.game_version, reads_ok)
                 ELSE p.addresses
             c2 == IF g = None THEN << "MemoryPtr::new" >> ELSE << >>
         IN  [ game |-> Some([p EXCEPT !.addresses = addresses]),
               ok |-> addresses # None,
               calls |-> c1 \o c2 ]

\* State::init: the game field afterwards, the value returned, and the calls
\* of attach_process and MemoryPtr::new made on the way.
init(o, g, found, reads_ok) ==
    LET g1 == IF g = None THEN attach_process(o, found) ELSE g
        c1 == IF g = None THEN << "attach_process" >> ELSE << >>
    IN
    IF g1 = None THEN [game |-> g1, ok |-> FALSE, calls |-> c1]
    ELSE IF ~is_open(o, Get(g1).game) THEN [game |-> None, ok |-> FALSE, calls |-> c1]
    ELSE LET p == Get(g1)
             addresses ==
                 IF p.addresses = None
                 THEN MemoryPtr_new(Get(o.image), p.game, p.is_64_bit, p.game_version, reads_ok)
                 ELSE p.addresses
             c2 == IF p.addresses = None THEN << "MemoryPtr::new" >> ELSE << >>
         IN  [ game |-> Some([p EXCEPT !.addresses = addresses]),
               ok |-> addresses # None,
               calls |-> c1 \o c2 ]

-----------------------------------------------------------------------------
(* State::update                                                           *)

\* The four-byte tags of the zone indicator.
TagMainMenu == 1852399949
TagZones == 1701736282
TagEnding == 1768189509
TagSaveSelect == 1702256979

DecodeZone(tag) ==
    CASE tag = TagMainMenu -> "MainMenu"
      [] tag = TagZones -> "Zones"
      [] tag = TagEnding -> "Ending"
      [] tag = TagSaveSelect -> "SaveSelect"
      [] OTHER -> "Default"

DecodeAct(byte) ==
    CASE byte = 0 -> "GreenHill1"
      [] byte = 1 -> "GreenHill2"
      [] byte = 2 -> "GreenHill3"
      [] byte = 3 -> "Marble1"
      [] byte = 4 -> "Marble2"
      [] byte = 5 -> "Marble3"
      [] byte = 6 -> "SpringYard1"
      [] byte = 7 -> "SpringYard2"
      [] byte = 8 -> "SpringYard3"
      [] byte = 9 -> "Labyrinth1"
      [] byte = 10 -> "Labyrinth2"
      [] byte = 11 -> "Labyrinth3"
      [] byte = 12 -> "StarLight1"
      [] byte = 13 -> "StarLight2"
      [] byte = 14 -> "StarLight3"
      [] byte = 15 -> "ScrapBrain1"
      [] byte = 16 -> "ScrapBrain2"
      [] byte = 17 -> "ScrapBrain3"
      [] byte = 18 -> "FinalZone"
      [] OTHER -> "Default"

\* The steps of State::update, each the watchers after it and whether the
\* function goes on. `mem` holds what each read yields if performed: Some(value)
\* or None when the read fails.
UpdateState(g, w, mem) ==
    LET w1 == [w EXCEPT !.state = Watcher_update(@, mem.state)]
    IN  [w |-> w1, go |-> w1.state # None]

UpdateZoneSelect(g, w, mem) ==
    LET value == IF Get(g).game_version = V1_5_0OrHigher
                 THEN mem.zoneselectongamecomplete
                 ELSE Some(0)
        w1 == [w EXCEPT !.zoneselectongamecomplete = Watcher_update(@, value)]
    IN  [w |-> w1, go |-> w1.zoneselectongamecomplete # None]

\* The zone indicator step with a failed read taken for an unknown tag.
UpdateZoneIndicator_DefaultOnFail(g, w, mem) ==
    LET i == IF mem.zoneindicator = None THEN "Default"
             ELSE DecodeZone(Get(mem.zoneindicator))
        w1 == [w EXCEPT !.zoneindicator = Watcher_update(@, Some(i))]
    IN  [w |-> w1, go |-> mem.zoneindicator # None]

UpdateZoneIndicator(g, w, mem) ==
    IF mem.zoneindicator = None THEN [w |-> w, go |-> FALSE]
    ELSE LET i == DecodeZone(Get(mem.zoneindicator))
             w1 == [w EXCEPT !.zoneindicator = Watcher_update(@, Some(i))]
         IN  [w |-> w1, go |-> w1.zoneindicator # None]

\* The act step feeding the act watcher Acts::Default outside of Zones, as it
\* does at the ending.
UpdateLevelId_DefaultOutsideZones(g, w, mem) ==
    LET zone == Get(w.zoneindicator) IN
    IF zone.current = "Zones"
    THEN IF mem.levelid = None THEN w
         ELSE [w EXCEPT !.levelid = Watcher_update(@, Some(DecodeAct(Get(mem.levelid))))]
    ELSE [w EXCEPT !.levelid = Watcher_update(@, Some("Default"))]

UpdateLevelId(g, w, mem) ==
    LET zone == Get(w.zoneindicator) IN
    IF zone.current = "Ending"
    THEN [w EXCEPT !.levelid = Watcher_update(@, Some("Default"))]
    ELSE IF zone.current = "Zones"
    THEN IF mem.levelid = None THEN w
         ELSE [w EXCEPT !.levelid = Watcher_update(@, Some(DecodeAct(Get(mem.levelid))))]
    ELSE IF w.levelid = None THEN w
         ELSE [w EXCEPT !.levelid = Watcher_update(@, Some(Get(w.levelid).current))]

\* State::update: the watchers afterwards.
State_update(g, w, mem) ==
    IF g = None THEN w
    ELSE IF Get(g).addresses = None THEN w
    ELSE LET s1 == UpdateState(g, w, mem) IN
         IF ~s1.go THEN s1.w
         ELSE LET s2 == UpdateZoneSelect(g, s1.w, mem) IN
              IF ~s2.go THEN s2.w
              ELSE LET s3 == UpdateZoneIndicator(g, s2.w, mem) IN
                   IF ~s3.go THEN s3.w
                   ELSE UpdateLevelId(g, s3.w, mem)

\* The reads State::update performs: the outcome of each read it reaches.
PerformedReads(g, w, mem) ==
    IF g = None THEN << >>
    ELSE IF Get(g).addresses = None THEN << >>
    ELSE LET s1 == UpdateState(g, w, mem)
             s2 == UpdateZoneSelect(g, s1.w, mem)
             s3 == UpdateZoneIndicator(g, s2.w, mem)
             zs == Get(g).game_version = V1_5_0OrHigher
             r1 == [n \in {"state"} |-> mem[n]]
             r2 == [n \in {"state"} \cup (IF zs THEN {"zoneselectongamecomplete"} ELSE {}) |-> mem[n]]
             r3 == [n \in DOMAIN r2 \cup {"zoneindicator"} |-> mem[n]]
             r4 == [n \in DOMAIN r3 \cup {"levelid"} |-> mem[n]]
         IN  IF ~s1.go THEN r1
             ELSE IF ~s2.go THEN r2
             ELSE IF ~s3.go THEN r3
             ELSE IF Get(s3.w.zoneindicator).current = "Zones" THEN r4
             ELSE r3

\* The watchers State::update calls update(Some(..)) on: the state watcher on
\* a successful read, the zone-select watcher on a successful read or with the
\* substitute 0, the zone indicator on a successful read, the act watcher in
\* the branch its zone indicator selects.
UpdatedWatchers(g, w, mem) ==
    IF g = None THEN {}
    ELSE IF Get(g).addresses = None THEN {}
    ELSE LET s1 == UpdateState(g, w, mem)
             s2 == UpdateZoneSelect(g, s1.w, mem)
             s3 == UpdateZoneIndicator(g, s2.w, mem)
             u1 == IF mem.state = None THEN {} ELSE {"state"}
             u2 == IF Get(g).game_version = V1_5_0OrHigher /\ mem.zoneselectongamecomplete = None
                   THEN u1 ELSE u1 \cup {"zoneselectongamecomplete"}
             u3 == IF mem.zoneindicator = None THEN u2 ELSE u2 \cup {"zoneindicator"}
             zone == Get(s3.w.zoneindicator).current
             u4 == IF zone = "Ending" THEN u3 \cup {"levelid"}
                   ELSE IF zone = "Zones"
                   THEN IF mem.levelid = None THEN u3 ELSE u3 \cup {"levelid"}
                   ELSE IF s3.w.levelid = None THEN u3 ELSE u3 \cup {"levelid"}
         IN  IF ~s1.go THEN u1
             ELSE IF ~s2.go THEN u2
             ELSE IF ~s3.go THEN u3
             ELSE u4

-----------------------------------------------------------------------------
(* The tick entry point update()                                           *)

\* The decisions with split tried after reset whatever reset returned.
Decide_SplitAlways(ts, g, w, s) ==
    LET running == ts = "Running" \/ ts = "Paused"
        c1 == (IF running /\ reset(g, w, s) THEN << "reset" >> ELSE << >>)
                  \o (IF running /\ split(w, s) THEN << "split" >> ELSE << >>)
        c2 == IF ts = "NotRunning" /\ start(g, w, s) THEN << "start" >> ELSE << >>
    IN  [ evals |-> (IF running THEN << "reset", "split" >> ELSE << >>)
                        \o (IF ts = "NotRunning" THEN << "start" >> ELSE << >>),
          cmds |-> c1 \o c2 ]

\* The decisions with start tried whenever the timer is not running or paused.
Decide_StartInElse(ts, g, w, s) ==
    LET running == ts = "Running" \/ ts = "Paused"
        r == reset(g, w, s)
    IN  IF running
        THEN [ evals |-> IF r THEN << "reset" >> ELSE << "reset", "split" >>,
               cmds |-> IF r THEN << "reset" >>
                        ELSE IF split(w, s) THEN << "split" >> ELSE << >> ]
        ELSE [ evals |-> << "start" >>,
               cmds |-> IF start(g, w, s) THEN << "start" >> ELSE << >> ]

\* Lines 436-468 of update(): the decisions evaluated and the commands issued
\* under timer state `ts`, in order.
Decide(ts, g, w, s) ==
    LET running == ts = "Running" \/ ts = "Paused"
        r == reset(g, w, s)
        e1 == IF running
              THEN IF r THEN << "reset" >> ELSE << "reset", "split" >>
              ELSE << >>
        c1 == IF running
              THEN IF r THEN << "reset" >>
                   ELSE IF split(w, s) THEN << "split" >> ELSE << >>
              ELSE << >>
        e2 == IF ts = "NotRunning" THEN << "start" >> ELSE << >>
        c2 == IF ts = "NotRunning" /\ start(g, w, s) THEN << "start" >> ELSE << >>
    IN  [evals |-> e1 \o e2, cmds |-> c1 \o c2]

\* No poll in this step: update() returned after init(), or the step is the
\* environment's. The record of the tick is empty.
NoTick ==
    /\ timer_state' = NotQueried
    /\ evals' = << >>
    /\ cmds' = << >>
    /\ reads' = << >>
    /\ updated' = {}

\* update() registering the settings in every tick, not only in the first.
Tick_RegisterEveryTick(D) ==
    \E s_in \in D.settings,
       found \in (IF game = None THEN D.found ELSE {TRUE}),
       reads_ok \in (IF game # None /\ Get(game).addresses # None THEN {TRUE} ELSE D.reads_ok) :
        LET s1 == Some(s_in)
            i == init(os, game, found, reads_ok)
        IN  /\ settings' = s1
            /\ game' = i.game
            /\ calls' = IF D.calls THEN i.calls ELSE << >>
            /\ UNCHANGED <<os, ret>>
            /\ IF ~i.ok
               THEN /\ UNCHANGED watchers
                    /\ NoTick
               ELSE \E o \in { [w |-> State_update(i.game, watchers, mem),
                                r |-> PerformedReads(i.game, watchers, mem),
                                u |-> UpdatedWatchers(i.game, watchers, mem)] : mem \in D.memory },
                       ts \in D.timer :
                        LET d == Decide(ts, i.game, o.w, s1)
                        IN  /\ watchers' = o.w
                            /\ timer_state' = ts
                            /\ evals' = d.evals
                            /\ cmds' = d.cmds
                            /\ reads' = o.r
                            /\ updated' = o.u

\* One call of update(). D gives the sets the inputs of the tick are drawn
\* from: the settings the host holds, the outcomes of attaching and resolving,
\* the contents of the four memory cells and the timer's state; and whether
\* the record of the tick keeps the calls State::init made.
Tick(D) ==
    \E s_in \in (IF settings = None THEN D.settings ELSE {Get(settings)}),
       found \in (IF game = None THEN D.found ELSE {TRUE}),
       reads_ok \in (IF game # None /\ Get(game).addresses # None THEN {TRUE} ELSE D.reads_ok) :
        LET s1 == IF settings = None THEN Some(s_in) ELSE settings
            i == init(os, game, found, reads_ok)
        IN  /\ settings' = s1
            /\ game' = i.game
            /\ calls' = IF D.calls THEN i.calls ELSE << >>
            /\ UNCHANGED <<os, ret>>
            /\ IF ~i.ok
               THEN /\ UNCHANGED watchers
                    /\ NoTick
               ELSE \E o \in { [w |-> State_update(i.game, watchers, mem),
                                r |-> PerformedReads(i.game, watchers, mem),
                                u |-> UpdatedWatchers(i.game, watchers, mem)] : mem \in D.memory },
                       ts \in D.timer :
                        LET d == Decide(ts, i.game, o.w, s1)
                        IN  /\ watchers' = o.w
                            /\ timer_state' = ts
                            /\ evals' = d.evals
                            /\ cmds' = d.cmds
                            /\ reads' = o.r
                            /\ updated' = o.u

\* Environment: the game is launched with one of the images Imgs.
GameStarts(Imgs, max_pid) ==
    /\ ~os.alive
    /\ os.pid < max_pid
    /\ \E img \in Imgs : os' = [pid |-> os.pid + 1, alive |-> TRUE, image |-> Some(img)]
    /\ NoTick
    /\ calls' = << >>
    /\ UNCHANGED <<game, watchers, settings, ret>>

\* Environment: the game process exits.
GameExits ==
    /\ os.alive
    /\ os' = [os EXCEPT !.alive = FALSE, !.image = None]
    /\ NoTick
    /\ calls' = << >>
    /\ UNCHANGED <<game, watchers, settings, ret>>

\* Option<T> over a set of values: a read of a cell holding one of them.
Option(S) == {None} \cup {Some(x) : x \in S}

Memory(states, flags, tags, levels) ==
    [ state : Option(states),
      zoneselectongamecomplete : Option(flags),
      zoneindicator : Option(tags),
      levelid : Option(levels) ]

-----------------------------------------------------------------------------
(* The polling loop                                                        *)

\* The number of times the game is launched.
MaxPid == 2

\* Level-id bytes 0..MaxLevel are read, and the out-of-range byte 19.
MaxLevel == 1

Image64 == Image({"SIG64", "SIG_64_2", "SIG_64_3"}, SizeThreshold)
Image32 == Image({"SIG32", "SIG32_2"}, SizeThreshold - 1)
Image32_1_5_0 == Image({"SIG32", "SIG32_2"}, SizeThreshold)

LoopImages == {Image32, Image32_1_5_0}

LoopDomain ==
    [ settings |-> {DefaultSettings},
      found |-> BOOLEAN,
      reads_ok |-> BOOLEAN,
      memory |-> Memory({2, 6, 7}, {0}, {TagZones, TagSaveSelect}, 0..MaxLevel),
      timer |-> TimerState,
      calls |-> FALSE ]

\* static AUTOSPLITTER, with no game process running.
Init ==
    /\ os = [pid |-> 0, alive |-> FALSE, image |-> None]
    /\ game = None
    /\ watchers = NewWatchers
    /\ settings = None
    /\ timer_state = NotQueried
    /\ evals = << >>
    /\ cmds = << >>
    /\ reads = << >>
    /\ ret = << >>
    /\ calls = << >>
    /\ updated = {}

Next ==
    \/ Tick(LoopDomain)
    \/ GameStarts(LoopImages, MaxPid)
    \/ GameExits

Spec == Init /\ [][Next]_vars

-----------------------------------------------------------------------------
(* The polling loop over the cells that reset, split and start all read    *)

\* State bytes 2, 200, 201 on the 32-bit build below 1.5.0: the reset pair
\* 200 -> 201, and a start on a change to 2 at the save select screen.
TimerDomain ==
    [ settings |-> {DefaultSettings, AllOff},
      found |-> BOOLEAN,
      reads_ok |-> BOOLEAN,
      memory |-> Memory({2, 200, 201}, {0}, {TagZones, TagSaveSelect}, 0..MaxLevel),
      timer |-> TimerState,
      calls |-> FALSE ]

NextTimer ==
    \/ Tick(TimerDomain)
    \/ GameStarts({Image32}, MaxPid)
    \/ GameExits

SpecTimer == Init /\ [][NextTimer]_vars

-----------------------------------------------------------------------------
(* The polling loop over the images a game process can show                *)

\* Images of each bitness on either side of the size threshold, an image with
\* the bitness signatures of both builds, and images lacking a signature.
Image64Small == Image({"SIG64", "SIG_64_2", "SIG_64_3"}, SizeThreshold - 1)
ImageBoth == Image({"SIG64", "SIG_64_2", "SIG_64_3", "SIG32", "SIG32_2"}, SizeThreshold)
ImageNoSig == Image({}, SizeThreshold)
Image32NoSig2 == Image({"SIG32"}, SizeThreshold - 1)
Image64NoSig3 == Image({"SIG64", "SIG_64_2"}, SizeThreshold - 1)

AttachImages ==
    { Image64, Image64Small, ImageBoth, Image32, Image32_1_5_0,
      ImageNoSig, Image32NoSig2, Image64NoSig3 }

AttachDomain ==
    [ settings |-> {DefaultSettings},
      found |-> BOOLEAN,
      reads_ok |-> BOOLEAN,
      memory |-> Memory({2, 6}, {0}, {TagSaveSelect}, {0}),
      timer |-> {"NotRunning", "Running"},
      calls |-> TRUE ]

NextAttach ==
    \/ Tick(AttachDomain)
    \/ GameStarts(AttachImages, MaxPid)
    \/ GameExits

SpecAttach == Init /\ [][NextAttach]_vars

-----------------------------------------------------------------------------
(* The polling loop over every zone indicator and level-id byte            *)

\* The four tags and a value that is none of them.
ZoneTags == {TagMainMenu, TagZones, TagEnding, TagSaveSelect, 0}

\* The bytes of the 19 acts, the first byte past them and the last byte.
LevelBytes == 0..19 \cup {255}

ActsDomain ==
    [ settings |-> {DefaultSettings},
      found |-> {TRUE},
      reads_ok |-> {TRUE},
      memory |-> Memory({2}, {0}, ZoneTags, LevelBytes),
      timer |-> {"Running"},
      calls |-> FALSE ]

NextActs ==
    \/ Tick(ActsDomain)
    \/ GameStarts({Image32}, 1)
    \/ GameExits

SpecActs == Init /\ [][NextActs]_vars

-----------------------------------------------------------------------------
(* The polling loop under a host that keeps calling update()               *)

LiveImages == {Image32, Image64, Image32NoSig2}

LiveDomain ==
    [ settings |-> {DefaultSettings},
      found |-> BOOLEAN,
      reads_ok |-> BOOLEAN,
      memory |-> Memory({2}, {0}, {TagSaveSelect}, {0}),
      timer |-> {"NotRunning"},
      calls |-> TRUE ]

\* A tick in which Process::attach and the module lookups succeed.
TickAttaches == Tick(LiveDomain) /\ game = None /\ game' # None

\* A tick in which every read of MemoryPtr::new succeeds.
TickResolves ==
    Tick(LiveDomain) /\ game # None /\ Get(game).addresses = None
        /\ game' # None /\ Get(game').addresses # None

NextLive ==
    \/ Tick(LiveDomain)
    \/ GameStarts(LiveImages, MaxPid)
    \/ GameExits

\* The host calls update() again and again; a lookup or a read that can
\* succeed in every tick from some tick on does succeed in one.
SpecLive ==
    /\ Init
    /\ [][NextLive]_vars
    /\ WF_vars(Tick(LiveDomain))
    /\ WF_vars(TickAttaches)
    /\ WF_vars(TickResolves)

-----------------------------------------------------------------------------
(* The decisions as functions of a snapshot                                *)

\* All pairs a watcher over S can hold.
Pairs(S) == {Pair(a, b) : a \in S, b \in S}

\* The state bytes the decisions compare with, and 0.
DecideBytes == {0, 2, 3, 6, 7, 8, 9, 10, 11, 13, 14, 200, 201}

\* Settings with one toggle switched against all the others.
OneOff(n) == [DefaultSettings EXCEPT ![n] = FALSE]
OneOn(n) == [AllOff EXCEPT ![n] = TRUE]

SettingsFamily ==
    {DefaultSettings, AllOff}
        \cup {OneOff(n) : n \in SettingFields}
        \cup {OneOn(n) : n \in SettingFields}

\* Every setting of the three toggles start() and reset() read.
MasterSettings ==
    { [DefaultSettings EXCEPT !.start_clean_save = a, !.start_new_game_plus = b, !.reset = c] :
        a \in BOOLEAN, b \in BOOLEAN, c \in BOOLEAN }

\* A resolved attachment of each supported (bitness, version).
Attached(img) ==
    LET g == Get(attach_process([pid |-> 1, alive |-> TRUE, image |-> Some(img)], TRUE))
    IN  Some([g EXCEPT !.addresses =
                 MemoryPtr_new(img, g.game, g.is_64_bit, g.game_version, TRUE)])

InitDecide(w, s, img) ==
    /\ os = [pid |-> 1, alive |-> TRUE, image |-> Some(img)]
    /\ game = Attached(img)
    /\ watchers = w
    /\ settings = s
    /\ timer_state = NotQueried
    /\ evals = << >>
    /\ cmds = << >>
    /\ reads = << >>
    /\ ret = << >>
    /\ calls = << >>
    /\ updated = {}

\* Snapshots for split(): every act pair, under every settings of the family.
InitSplit ==
    \E l \in Option(Pairs(Acts)), s \in Option(SettingsFamily) :
        InitDecide([NewWatchers EXCEPT !.levelid = l], s, Image32)

\* Snapshots for start() and reset(): every pair of state bytes, zone
\* indicators and zone-select flags, on each build.
InitStartReset ==
    \E st \in Pairs(DecideBytes),
       zi \in Pairs(ZoneIndicator),
       zs \in Pairs({0, 1}),
       s \in MasterSettings,
       img \in {Image64, Image32, Image32_1_5_0} :
        InitDecide([ state |-> Some(st),
                     levelid |-> None,
                     zoneselectongamecomplete |-> Some(zs),
                     zoneindicator |-> Some(zi) ], Some(s), img)

\* Snapshots in which a watcher start() or reset() needs is still empty.
InitEmpty ==
    \E st \in Option({Pair(6, 7), Pair(200, 201), Pair(13, 14), Pair(10, 11)}),
       zi \in Option({Pair("SaveSelect", "SaveSelect")}),
       zs \in Option({Pair(0, 0)}),
       s \in Option({DefaultSettings}),
       img \in {Image64, Image32, Image32_1_5_0} :
        InitDecide([ state |-> st,
                     levelid |-> None,
                     zoneselectongamecomplete |-> zs,
                     zoneindicator |-> zi ], s, img)

\* A call of start() that consumes the change it reported: the state watcher
\* is left with old = current.
CallStart_ConsumesChange ==
    /\ ret' = << "start", start(game, watchers, settings) >>
    /\ watchers' = IF watchers.state = None THEN watchers
                   ELSE [watchers EXCEPT !.state =
                            Some(Pair(Get(@).current, Get(@).current))]
    /\ UNCHANGED <<os, game, settings, timer_state, evals, cmds, reads, calls, updated>>

CallStart ==
    /\ ret' = << "start", start(game, watchers, settings) >>
    /\ UNCHANGED <<os, game, watchers, settings, timer_state, evals, cmds, reads, calls, updated>>

CallSplit ==
    /\ ret' = << "split", split(watchers, settings) >>
    /\ UNCHANGED <<os, game, watchers, settings, timer_state, evals, cmds, reads, calls, updated>>

CallReset ==
    /\ ret' = << "reset", reset(game, watchers, settings) >>
    /\ UNCHANGED <<os, game, watchers, settings, timer_state, evals, cmds, reads, calls, updated>>

NextDecide == CallStart \/ CallSplit \/ CallReset

SpecDecide == (InitSplit \/ InitStartReset \/ InitEmpty) /\ [][NextDecide]_vars

-----------------------------------------------------------------------------
(* Properties                                                              *)

Issued(c) == \E i \in 1..Len(cmds) : cmds[i] = c

Evaluated(d) == \E i \in 1..Len(evals) : evals[i] = d

Running == timer_state = "Running" \/ timer_state = "Paused"

\* The tick just taken reached the decisions.
Polled == timer_state # NotQueried

OnVersion(v) == game # None /\ Get(game).game_version = v

StatePairIs(a, b) == watchers.state # None /\ Get(watchers.state) = Pair(a, b)

\* C1: in a tick with the timer running or paused, reset is the first decision
\* evaluated, split is evaluated only when reset returned false, and no tick
\* issues both a reset and a split command.
C1_ResetBeforeSplit ==
    /\ Running =>
          /\ Len(evals) >= 1
          /\ evals[1] = "reset"
          /\ Issued("reset") => ~Evaluated("split")
          /\ Evaluated("split") => evals = << "reset", "split" >> /\ ~Issued("reset")
          /\ Issued("split") => Evaluated("split")
    /\ ~(Issued("reset") /\ Issued("split"))

\* A tick with the timer paused in which reset fired, so split was not tried.
C1_Witness ==
    /\ timer_state = "Paused"
    /\ cmds = << "reset" >>
    /\ evals = << "reset" >>

\* C2: start is issued only with the timer NotRunning, split and reset only
\* with it Running or Paused, nothing with it Ended; start never shares a tick
\* with split or reset.
C2_TimerGating ==
    /\ Issued("start") => timer_state = "NotRunning"
    /\ Issued("split") \/ Issued("reset") => Running
    /\ timer_state = "Ended" => cmds = << >>
    /\ ~(Issued("start") /\ (Issued("split") \/ Issued("reset")))

\* A tick with the timer Ended in which the start condition held and nothing
\* was issued.
C2_Witness ==
    /\ timer_state = "Ended"
    /\ start(game, watchers, settings)
    /\ cmds = << >>

\* The transition table of split(): the act before `current` in game order and
\* the toggle named after it; the final split on a change into Acts::Default.
ActIndex(a) == CHOOSE i \in 1..Len(ActOrder) : ActOrder[i] = a

ToggleOfAct(a) == SettingNames[ActIndex(a) + 3]

SplitTable(p, s) ==
    IF p.current # "Default"
    THEN /\ ActIndex(p.current) > 1
         /\ p.old = ActOrder[ActIndex(p.current) - 1]
         /\ s[ToggleOfAct(p.old)]
    ELSE s.final_zone /\ p.old # "Default"

\* C3: split() called on an act pair under any settings returns what the
\* transition table gives.
C3_SplitTable ==
    (ret # << >> /\ ret[1] = "split" /\ watchers.levelid # None /\ settings # None)
        => ret[2] = SplitTable(Get(watchers.levelid), Get(settings))

\* split() returned true on the change from FinalZone into Acts::Default.
C3_Witness ==
    /\ ret = << "split", TRUE >>
    /\ watchers.levelid = Some(Pair("FinalZone", "Default"))

\* The state pair reset() waits for on each version.
ResetPair(v) == IF v = Below1_5_0 THEN Pair(200, 201) ELSE Pair(13, 14)

\* C4: reset() is true iff the reset toggle is on, the state pair is the pair
\* of the attachment's version and the zone indicator is at SaveSelect.
C4_ResetIff ==
    (ret # << >> /\ ret[1] = "reset")
        => ret[2] = ( /\ settings # None
                      /\ Get(settings).reset
                      /\ watchers.state # None
                      /\ Get(watchers.state) = ResetPair(Get(game).game_version)
                      /\ watchers.zoneindicator # None
                      /\ Get(watchers.zoneindicator).current = "SaveSelect" )

\* reset() returned false on 1.5.0 for the pair 13 -> 14 with the zone
\* indicator at Zones.
C4_Witness ==
    /\ ret = << "reset", FALSE >>
    /\ OnVersion(V1_5_0OrHigher)
    /\ StatePairIs(13, 14)
    /\ watchers.zoneindicator # None
    /\ Get(watchers.zoneindicator).current = "Zones"
    /\ Get(settings).reset

\* The start formula of each version over a state pair st, the zone indicator
\* zi and the zone-select flag zs.
StartFormula(v, st, zi, zs, s) ==
    IF v = Below1_5_0
    THEN \/ s.start_clean_save
            /\ \/ st.old # st.current /\ st.current = 2 /\ zi = "SaveSelect"
               \/ st.old = 6 /\ st.current = 7
         \/ s.start_new_game_plus /\ st.old = 8 /\ st.current = 9
    ELSE \/ s.start_clean_save
            /\ \/ st.old = 3 /\ st.current = 7 /\ zi = "SaveSelect"
               \/ st.old = 10 /\ st.current = 11
         \/ s.start_new_game_plus /\ st.old = 2 /\ st.current = 6 /\ zs = 0

AllSampled ==
    /\ watchers.state # None
    /\ watchers.zoneselectongamecomplete # None
    /\ watchers.zoneindicator # None

\* C5: with every watcher start() reads holding a pair, start() returns the
\* formula of the attachment's version.
C5_StartFormula ==
    (ret # << >> /\ ret[1] = "start" /\ AllSampled /\ settings # None)
        => ret[2] = StartFormula(Get(game).game_version,
                                 Get(watchers.state),
                                 Get(watchers.zoneindicator).current,
                                 Get(watchers.zoneselectongamecomplete).current,
                                 Get(settings))

\* start() returned false below 1.5.0 at the save select screen for a state
\* byte that stayed 2.
C5_Witness ==
    /\ ret = << "start", FALSE >>
    /\ OnVersion(Below1_5_0)
    /\ StatePairIs(2, 2)
    /\ watchers.zoneindicator # None
    /\ Get(watchers.zoneindicator).current = "SaveSelect"
    /\ Get(settings).start_clean_save

\* C6 as stated: below 1.5.0 with start_clean_save on, the state pair 6 -> 7
\* makes start() true in every state of the polling loop.
C6_StartOnSixSeven ==
    ( /\ OnVersion(Below1_5_0)
      /\ settings # None
      /\ Get(settings).start_clean_save
      /\ StatePairIs(6, 7) )
        => start(game, watchers, settings)

\* C6, amended: the same once the zone-select and zone-indicator watchers
\* hold a pair; and a tick that finds the timer NotRunning then issues start.
C6_StartOnSixSevenSampled ==
    ( /\ OnVersion(Below1_5_0)
      /\ settings # None
      /\ Get(settings).start_clean_save
      /\ StatePairIs(6, 7)
      /\ AllSampled )
        => /\ start(game, watchers, settings)
           /\ timer_state = "NotRunning" => cmds = << "start" >>

\* A tick below 1.5.0 that saw 6 -> 7 inside a zone and issued start.
C6_Witness ==
    /\ OnVersion(Below1_5_0)
    /\ StatePairIs(6, 7)
    /\ watchers.zoneindicator # None
    /\ Get(watchers.zoneindicator).current = "Zones"
    /\ watchers.levelid # None
    /\ cmds = << "start" >>

\* C7: below 1.5.0 the state pair 2 -> 6 never makes start() true and never
\* starts the timer; the zone-select cell is not read there, and on 1.5.0 it
\* is read in every poll that gets past the state byte.
C7_NewGamePlusTierGated ==
    /\ (OnVersion(Below1_5_0) /\ StatePairIs(2, 6)) =>
          ~start(game, watchers, settings) /\ ~Issued("start")
    /\ (OnVersion(Below1_5_0) /\ Polled) =>
          "zoneselectongamecomplete" \notin DOMAIN reads
    /\ (OnVersion(V1_5_0OrHigher) /\ Polled /\ watchers.state # None) =>
          "zoneselectongamecomplete" \in DOMAIN reads

\* A tick below 1.5.0 with the timer NotRunning and every toggle on that saw
\* 2 -> 6 with the substitute 0 in the zone-select watcher, and did not start.
C7_Witness ==
    /\ OnVersion(Below1_5_0)
    /\ StatePairIs(2, 6)
    /\ watchers.zoneselectongamecomplete = Some(Pair(0, 0))
    /\ watchers.zoneindicator # None
    /\ settings = Some(DefaultSettings)
    /\ timer_state = "NotRunning"
    /\ evals = << "start" >>
    /\ cmds = << >>

\* C8: a decision is false while a watcher it needs is empty, and it issues no
\* command then.
C8_EmptyWatcherNoDecision ==
    /\ (watchers.state = None \/ watchers.zoneindicator = None) =>
          ~reset(game, watchers, settings) /\ ~Issued("reset")
    /\ watchers.levelid = None =>
          ~split(watchers, settings) /\ ~Issued("split")
    /\ watchers.state = None =>
          ~start(game, watchers, settings) /\ ~Issued("start")

\* A tick with the timer running that saw 200 -> 201 with the reset toggle on
\* while the zone indicator had never been read, and issued nothing.
C8_Witness ==
    /\ StatePairIs(200, 201)
    /\ watchers.zoneindicator = None
    /\ settings = Some(DefaultSettings)
    /\ timer_state = "Running"
    /\ evals = << "reset", "split" >>
    /\ cmds = << >>

\* What a watcher holds after a present sample v.
Shifted(w, v) == Some(Pair(IF w = None THEN v ELSE Get(w).current, v))

WatcherNames == {"state", "zoneselectongamecomplete", "zoneindicator", "levelid"}

\* The value a performed, successful read feeds its watcher.
Decoded(n, v) ==
    CASE n = "zoneindicator" -> DecodeZone(v)
      [] n = "levelid" -> DecodeAct(v)
      [] OTHER -> v

\* C9: in every tick, a watcher whose read failed keeps its pair (and is not
\* emptied), a watcher whose read succeeded holds (old current, sample), and a
\* watcher that got its first pair holds old = current.
C9_LatchLaw ==
    [][ \A n \in WatcherNames :
          /\ (n \in DOMAIN reads' /\ reads'[n] = None) => watchers'[n] = watchers[n]
          /\ (n \in DOMAIN reads' /\ reads'[n] # None) =>
                watchers'[n] = Shifted(watchers[n], Decoded(n, Get(reads'[n])))
          /\ (watchers[n] = None /\ watchers'[n] # None) =>
                ~changed(Get(watchers'[n]))
          /\ watchers[n] # None => watchers'[n] # None
      ]_vars

\* A tick whose read of the state byte failed while the state watcher held a
\* changed pair, which it still holds.
C9_Witness ==
    /\ "state" \in DOMAIN reads
    /\ reads["state"] = None
    /\ watchers.state # None
    /\ changed(Get(watchers.state))
    /\ "zoneindicator" \in DOMAIN reads
    /\ reads["zoneindicator"] # None

\* C10: with no process attached (at the start, or after the handle was found
\* closed) every watcher is empty.
C10_WatchersEmptyWhenDetached ==
    game = None => watchers = NewWatchers

Called(c) == \E i \in 1..Len(calls) : calls[i] = c

Resolved(g) == g # None /\ Get(g).addresses # None

\* The attachment attach_process and MemoryPtr::new give for the process the
\* operating system runs in state o, when every lookup and read succeeds.
FreshAttachment(o) ==
    LET a == Get(attach_process(o, TRUE))
    IN  Some([a EXCEPT !.addresses =
                 MemoryPtr_new(Get(o.image), a.game, a.is_64_bit, a.game_version, TRUE)])

\* C11: a resolved attachment is left as it is by every later tick that finds
\* its handle open, and MemoryPtr::new is not called then; a tick that finds
\* the handle closed drops the attachment with its bitness, version and
\* addresses; and every tick that polls does so on the attachment resolved from
\* the image of the process then running.
C11_AddressesOfOneAttachment ==
    [][ /\ (Resolved(game) /\ game' # None /\ Get(game').game = Get(game).game) =>
              game' = game /\ ~Called("MemoryPtr::new")'
        /\ (game # None /\ ~is_open(os, Get(game).game) /\ os' = os) => game' = None
        /\ Polled' =>
              /\ os'.alive
              /\ attach_process(os', TRUE) # None
              /\ game' = FreshAttachment(os')
      ]_vars

\* A tick that polled the second process, a 64-bit one, on addresses resolved
\* in an earlier tick.
C11_Witness ==
    /\ Polled
    /\ os.pid = 2
    /\ Get(game).game = 2
    /\ Get(game).is_64_bit
    /\ calls = << >>

\* The image of the running process lacks a signature that MemoryPtr::new
\* scans for under the bitness and version of the attachment g.
SignatureMissing(g, o) ==
    /\ g # None
    /\ is_open(o, Get(g).game)
    /\ ~(RequiredSigs(Get(g).is_64_bit, Get(g).game_version) \subseteq Get(o.image).sigs)

\* C12: once MemoryPtr::new has failed in an attachment for a missing
\* signature, no later tick of that attachment calls it again.
C12_ResolverRunsOncePerAttachment ==
    [][ ( /\ game # None
          /\ Get(game).addresses = None
          /\ SignatureMissing(game, os)
          /\ game' # None
          /\ Get(game').game = Get(game).game )
            => ~Called("MemoryPtr::new")'
      ]_vars

\* C17: an attachment is 64-bit iff the image holds the 64-bit signature, and
\* its version is 1.5.0 or higher iff it is 32-bit and the image is at least
\* 0x57F4000 bytes; no attachment is 64-bit and 1.5.0 or higher.
C17_VersionTier ==
    game # None =>
        LET g == Get(game) IN
        /\ g.game_version \in GameVersion
        /\ g.game_version = V1_5_0OrHigher <=>
              (~g.is_64_bit /\ g.main_module_size >= 92225536)
        /\ ~(g.is_64_bit /\ g.game_version = V1_5_0OrHigher)
        /\ is_open(os, g.game) =>
              /\ g.main_module_size = Get(os.image).size
              /\ g.is_64_bit <=> "SIG64" \in Get(os.image).sigs
              /\ ~g.is_64_bit => "SIG32" \in Get(os.image).sigs

\* An attachment to an image of 0x57F4000 bytes holding the signatures of both
\* builds: 64-bit, below 1.5.0, and resolved.
C17_Witness ==
    /\ game # None
    /\ is_open(os, Get(game).game)
    /\ Get(os.image) = ImageBoth
    /\ Get(game).is_64_bit
    /\ Get(game).game_version = Below1_5_0
    /\ Get(game).addresses # None

\* C18: a tick that ends with no process attached (none found, or the handle
\* found closed) or with the addresses unresolved updates no watcher, reads
\* no memory, does not query the timer and evaluates and issues nothing.
C18_NoPollingBeforeResolution ==
    [][ ~Resolved(game') =>
            /\ watchers' = watchers
            /\ updated' = {}
            /\ reads' = << >>
            /\ ~Polled'
            /\ evals' = << >>
            /\ cmds' = << >>
      ]_vars

\* A tick on an attachment whose resolution failed again, while the watchers
\* still held a state pair and a zone indicator that make start() true.
C18_Witness ==
    /\ game # None
    /\ Get(game).addresses = None
    /\ calls = << "MemoryPtr::new" >>
    /\ start(game, watchers, settings)
    /\ cmds = << >>

\* State::update ran through all of its steps in the tick just taken: the
\* state, zone-select and zone-indicator watchers were fed a value, and the act
\* watcher too unless it is empty outside of Zones and Ending, where there is
\* nothing to feed it.
UpdateCompleted ==
    /\ {"state", "zoneselectongamecomplete", "zoneindicator"} \subseteq updated
    /\ \/ "levelid" \in updated
       \/ /\ watchers.levelid = None
          /\ Get(watchers.zoneindicator).current \notin {"Zones", "Ending"}

\* C13: a tick that evaluates a decision has fed all four watchers this tick's
\* sample before; no decision is evaluated on watchers of which only some were
\* fed.
C13_AllWatchersUpdatedBeforeDecisions ==
    evals # << >> => UpdateCompleted

\* A read of the tick just taken failed.
ReadFailed == \E n \in DOMAIN reads : reads[n] = None

\* C14: a polling tick in which a memory read fails issues no command.
C14_FailedReadNoCommand ==
    (Polled /\ ReadFailed) => cmds = << >>

\* C20: a split is issued only in a tick that fed the act watcher a new
\* sample, and a reset only in a tick that fed the state watcher one.
C20_OneCommandPerChange ==
    /\ Issued("split") => "levelid" \in updated
    /\ Issued("reset") => "state" \in updated

ActOfByte(b) == IF b <= 18 THEN ActOrder[b + 1] ELSE "Default"

\* C16: in a tick that decoded a zone indicator, the act watcher is fed
\* Acts::Default at the ending; the act of the level-id byte in Zones, when the
\* byte was read; and elsewhere the level-id byte is not read and the act
\* watcher, if it holds a pair, is fed its own current value, and stays empty
\* if it holds none.
C16_ActDecoding ==
    [][ ("zoneindicator" \in DOMAIN reads' /\ reads'["zoneindicator"] # None) =>
          LET zone == Get(watchers'.zoneindicator).current
              act == watchers.levelid
          IN  /\ zone = DecodeZone(Get(reads'["zoneindicator"]))
              /\ zone = "Ending" =>
                    /\ "levelid" \notin DOMAIN reads'
                    /\ watchers'.levelid = Shifted(act, "Default")
              /\ (zone = "Zones" /\ reads'["levelid"] # None) =>
                    watchers'.levelid = Shifted(act, ActOfByte(Get(reads'["levelid"])))
              /\ zone \notin {"Ending", "Zones"} =>
                    /\ "levelid" \notin DOMAIN reads'
                    /\ act = None => watchers'.levelid = None
                    /\ act # None =>
                          watchers'.levelid = Some(Pair(Get(act).current, Get(act).current))
      ]_vars

\* A tick at the save select screen that left the act watcher at
\* (FinalZone, FinalZone) without reading the level-id byte.
C16_Witness ==
    /\ Polled
    /\ "zoneindicator" \in DOMAIN reads
    /\ reads["zoneindicator"] = Some(TagSaveSelect)
    /\ "levelid" \notin DOMAIN reads
    /\ watchers.levelid = Some(Pair("FinalZone", "FinalZone"))
    /\ "levelid" \in updated

\* A game process is running whose image holds the bitness signature and the
\* signatures MemoryPtr::new scans for.
GoodProcess ==
    /\ os.alive
    /\ attach_process(os, TRUE) # None
    /\ Get(FreshAttachment(os)).addresses # None

\* C19: if from some tick on such a process is running and stays open, then
\* from some tick on init() returns true in every tick: the process is
\* attached, its addresses are resolved and every tick polls.
C19_EventuallyResolved ==
    <>[]GoodProcess => <>[](Resolved(game) /\ is_open(os, Get(game).game) /\ Polled)

\* A tick that resolved the addresses of an attachment made by an earlier
\* tick, whose own resolution had failed, and polled.
C19_Witness ==
    /\ calls = << "MemoryPtr::new" >>
    /\ Resolved(game)
    /\ Polled
    /\ "state" \in updated

\* C21: the first tick stores the settings; no later step replaces or changes
\* them, whatever happens to the game process; and the commands of every tick
\* are those the decisions give on the stored settings.
C21_SettingsTakenOnce ==
    [][ /\ (settings = None /\ os' = os) => settings' # None
        /\ settings # None => settings' = settings
        /\ Polled' =>
              /\ settings' # None
              /\ cmds' = Decide(timer_state', game', watchers', settings').cmds
      ]_vars

\* A tick on the second process, with the timer running and the settings
\* stored with every toggle off, that saw 200 -> 201 at the save select screen
\* and issued no reset.
C21_Witness ==
    /\ os.pid = 2
    /\ OnVersion(Below1_5_0)
    /\ settings = Some(AllOff)
    /\ StatePairIs(200, 201)
    /\ watchers.zoneindicator # None
    /\ Get(watchers.zoneindicator).current = "SaveSelect"
    /\ timer_state = "Running"
    /\ "state" \in updated
    /\ cmds = << >>

====
